---- MODULE Spec2Model ----
(***************************************************************************)
(* Model of lookup.py: an interactive query tool over the HyperionDev      *)
(* student database.  A state is the position of the console dialogue      *)
(* (main prompt, store prompt, filename prompt, exited, crashed), the      *)
(* database file, the last result set, and what the last step read,        *)
(* printed, executed and wrote.  One action models everything the program  *)
(* does between two calls of input().                                      *)
(*                                                                         *)
(* Python strings are sequences of one-character strings, so that strip,   *)
(* lower, split, capitalize, isalpha and SQLite's UPPER are computed.      *)
(***************************************************************************)
EXTENDS Integers, Sequences, FiniteSets, TLC

VARIABLES pc, dbfile, data, input, out, executed, written, connOpen

vars == <<pc, dbfile, data, input, out, executed, written, connOpen>>

\* Largest number of argument tokens typed after a command.
MaxArgs == 3

----------------------------------------------------------------------------
(* Characters and the str methods the program calls.                       *)

UpperChars == <<"A","B","C","D","E","F","G","H","I","J","K","L","M",
                "N","O","P","Q","R","S","T","U","V","W","X","Y","Z">>
LowerChars == <<"a","b","c","d","e","f","g","h","i","j","k","l","m",
                "n","o","p","q","r","s","t","u","v","w","x","y","z">>
DigitChars == <<"0","1","2","3","4","5","6","7","8","9">>

Range(s) == {s[i] : i \in 1..Len(s)}

Whitespace == {" "}

IndexIn(c, s) == CHOOSE i \in 1..Len(s) : s[i] = c

Letters == Range(UpperChars) \cup Range(LowerChars)

ToLower == [c \in Range(UpperChars) |-> LowerChars[IndexIn(c, UpperChars)]]
ToUpper == [c \in Range(LowerChars) |-> UpperChars[IndexIn(c, LowerChars)]]

LowerChar(c) == IF c \in DOMAIN ToLower THEN ToLower[c] ELSE c

UpperChar(c) == IF c \in DOMAIN ToUpper THEN ToUpper[c] ELSE c

\* str.lower()
Lower(s) == [i \in 1..Len(s) |-> LowerChar(s[i])]

\* SQLite UPPER(): ASCII letters only.
SqlUpper(s) == [i \in 1..Len(s) |-> UpperChar(s[i])]

\* str.capitalize(): first character upper-cased, the rest lower-cased.
Capitalize(s) == [i \in 1..Len(s) |-> IF i = 1 THEN UpperChar(s[i]) ELSE LowerChar(s[i])]

\* str.isalpha(): non-empty and every character a letter.
IsAlpha(s) == /\ Len(s) > 0
              /\ \A i \in 1..Len(s) : s[i] \in Letters

RECURSIVE LStrip(_)
LStrip(s) == IF s # <<>> /\ Head(s) \in Whitespace THEN LStrip(Tail(s)) ELSE s

RECURSIVE RStrip(_)
RStrip(s) == IF s # <<>> /\ s[Len(s)] \in Whitespace
             THEN RStrip(SubSeq(s, 1, Len(s) - 1)) ELSE s

\* str.strip()
Strip(s) == RStrip(LStrip(s))

\* str.split(): the maximal runs of non-whitespace characters, in order.
RECURSIVE SplitFrom(_, _, _)
SplitFrom(s, cur, acc) ==
    IF s = <<>> THEN (IF cur = <<>> THEN acc ELSE Append(acc, cur))
    ELSE IF Head(s) \in Whitespace
         THEN SplitFrom(Tail(s), <<>>, IF cur = <<>> THEN acc ELSE Append(acc, cur))
         ELSE SplitFrom(Tail(s), Append(cur, Head(s)), acc)

Split(s) == SplitFrom(s, <<>>, <<>>)

\* filename.split(".")[-1]: what follows the last dot, the whole name if
\* there is no dot.
RECURSIVE LastDotPart(_)
LastDotPart(s) ==
    IF \E i \in 1..Len(s) : s[i] = "."
    THEN LastDotPart(SubSeq(s, (CHOOSE i \in 1..Len(s) : s[i] = ".") + 1, Len(s)))
    ELSE s

\* str() of a non-negative int: its decimal digits.
RECURSIVE NatStr(_)
NatStr(n) == IF n < 10 THEN <<DigitChars[n + 1]>>
             ELSE Append(NatStr(n \div 10), DigitChars[(n % 10) + 1])

IntStr(n) == IF n < 0 THEN <<"-">> \o NatStr(0 - n) ELSE NatStr(n)

----------------------------------------------------------------------------
(* Values of a result row: TEXT, INTEGER or NULL, as sqlite3 returns them  *)
(* (str, int, None).                                                       *)

TextCell(s) == [t |-> "text", s |-> s]
IntCell(n) == [t |-> "int", i |-> n]
NullCell == [t |-> "null"]

\* str(value)
PyStr(v) == IF v.t = "text" THEN v.s
            ELSE IF v.t = "int" THEN IntStr(v.i)
            ELSE <<"N","o","n","e">>

----------------------------------------------------------------------------
(* The database.  Tables are sequences of rows in rowid order; a database  *)
(* file without the tables (sqlite3.connect creates an empty file when     *)
(* HyperionDev.db is missing) makes every query raise sqlite3.Error.       *)

IdX1 == <<"X","1">>
IdY2 == <<"Y","2">>
IdT9 == <<"T","9">>
NameAb == <<"A","b">>
NameCd == <<"C","d">>
CoursePy == <<"P","y">>
CourseSq == <<"S","q">>

CourseDb == <<"D","b">>

\* A populated database in which the first student, who is also listed as a
\* teacher, is stored under the id x.  Two of that student's three courses
\* have the same name.
Populated(x) ==
    [schema |-> TRUE,
     Student |-> << [student_id |-> x, first_name |-> NameAb, last_name |-> NameAb,
                     email |-> <<"a","@">>, address_id |-> 1],
                    [student_id |-> IdY2, first_name |-> NameCd, last_name |-> NameAb,
                     email |-> <<"c","@">>, address_id |-> 2] >>,
     Address |-> << [address_id |-> 1, street |-> <<"1"," ","R","d">>, city |-> <<"J","b">>],
                    [address_id |-> 2, street |-> <<"2"," ","R","d">>, city |-> <<"C","t">>] >>,
     Teacher |-> << [teacher_id |-> x], [teacher_id |-> IdT9] >>,
     Course |-> << [course_code |-> 1, course_name |-> CoursePy, teacher_id |-> x],
                   [course_code |-> 2, course_name |-> CoursePy, teacher_id |-> x],
                   [course_code |-> 3, course_name |-> CourseSq, teacher_id |-> x],
                   [course_code |-> 4, course_name |-> CourseDb, teacher_id |-> IdT9] >>,
     StudentCourse |-> << [student_id |-> x, course_code |-> 1, is_complete |-> 1, mark |-> IntCell(25)],
                          [student_id |-> x, course_code |-> 2, is_complete |-> 0, mark |-> NullCell],
                          [student_id |-> x, course_code |-> 3, is_complete |-> 1, mark |-> IntCell(30)],
                          [student_id |-> IdY2, course_code |-> 4, is_complete |-> 0, mark |-> NullCell],
                          [student_id |-> IdY2, course_code |-> 1, is_complete |-> 1, mark |-> IntCell(80)] >>,
     Review |-> << [student_id |-> x, completeness |-> 4, efficiency |-> 3, style |-> 2,
                    documentation |-> 1, review_text |-> TextCell(<<"o","k">>)],
                   [student_id |-> IdY2, completeness |-> 1, efficiency |-> 1, style |-> 1,
                    documentation |-> 1, review_text |-> TextCell(<<"n","o">>)],
                   [student_id |-> x, completeness |-> 10, efficiency |-> 0, style |-> 7,
                    documentation |-> 9, review_text |-> NullCell] >>]

EmptyTables ==
    [schema |-> TRUE, Student |-> <<>>, Address |-> <<>>, Teacher |-> <<>>,
     Course |-> <<>>, StudentCourse |-> <<>>, Review |-> <<>>]

NoTables == [EmptyTables EXCEPT !.schema = FALSE]

\* The database files the program may be started on.
Databases == [upper |-> Populated(IdX1), lower |-> Populated(Lower(IdX1)),
              empty |-> EmptyTables, missing |-> NoTables]

\* The contents of the file the connection is open on.
db == Databases[dbfile]

\* The rows <<a, b>> of a join of two tables, outer table first.
Join2(A, B) ==
    [k \in 1..(Len(A) * Len(B)) |-> <<A[((k - 1) \div Len(B)) + 1], B[((k - 1) % Len(B)) + 1]>>]

Join3(A, B, C) ==
    [k \in 1..(Len(A) * Len(B) * Len(C)) |->
        <<A[((k - 1) \div (Len(B) * Len(C))) + 1],
          B[(((k - 1) \div Len(C)) % Len(B)) + 1],
          C[((k - 1) % Len(C)) + 1]>>]

\* SELECT DISTINCT: each row once, at its first occurrence.
RECURSIVE Distinct(_)
Distinct(rows) ==
    IF rows = <<>> THEN <<>>
    ELSE LET init == Distinct(SubSeq(rows, 1, Len(rows) - 1))
             last == rows[Len(rows)]
         IN IF last \in Range(init) THEN init ELSE Append(init, last)

\* SELECT * FROM Student
QueryD(d) ==
    [k \in 1..Len(d.Student) |->
        LET s == d.Student[k]
        IN <<TextCell(s.student_id), TextCell(s.first_name), TextCell(s.last_name),
             TextCell(s.email), IntCell(s.address_id)>>]

\* The same condition with the parameter compared as typed: = ? for = UPPER(?).
VsMatchAsTyped(j, p) == /\ j[1].student_id = j[2].student_id
                        /\ j[2].course_code = j[3].course_code
                        /\ j[1].student_id = p

\* SELECT DISTINCT c.course_name ... WHERE s.student_id = UPPER(?)
VsMatch(j, p) == /\ j[1].student_id = j[2].student_id
                 /\ j[2].course_code = j[3].course_code
                 /\ j[1].student_id = SqlUpper(p)

QueryVs(d, student_id) ==
    LET Test(j) == VsMatch(j, student_id)
        m == SelectSeq(Join3(d.Student, d.StudentCourse, d.Course), Test)
    IN Distinct([k \in 1..Len(m) |-> <<TextCell(m[k][3].course_name)>>])

\* SELECT a.street, a.city ... WHERE s.first_name = ? AND last_name = ?
QueryLa(d, firstname, lastname) ==
    LET Test(j) == /\ j[1].address_id = j[2].address_id
                   /\ j[1].first_name = firstname
                   /\ j[1].last_name = lastname
        m == SelectSeq(Join2(d.Student, d.Address), Test)
    IN [k \in 1..Len(m) |-> <<TextCell(m[k][2].street), TextCell(m[k][2].city)>>]

\* SELECT completeness, ... FROM Review WHERE student_id = UPPER(?)
QueryLr(d, student_id) ==
    LET Test(r) == r.student_id = SqlUpper(student_id)
        m == SelectSeq(d.Review, Test)
    IN [k \in 1..Len(m) |->
          <<IntCell(m[k].completeness), IntCell(m[k].efficiency), IntCell(m[k].style),
            IntCell(m[k].documentation), m[k].review_text>>]

\* SELECT DISTINCT c.course_name FROM Teacher t JOIN Course c ... WHERE t.teacher_id = UPPER(?)
QueryLc(d, teacher_id) ==
    LET Test(j) == /\ j[1].teacher_id = j[2].teacher_id
                   /\ j[1].teacher_id = SqlUpper(teacher_id)
        m == SelectSeq(Join2(d.Teacher, d.Course), Test)
    IN Distinct([k \in 1..Len(m) |-> <<TextCell(m[k][2].course_name)>>])

StudentCourseRow(j) ==
    <<TextCell(j[1].student_id), TextCell(j[1].first_name), TextCell(j[1].last_name),
      TextCell(j[1].email), TextCell(j[3].course_name)>>

\* ... WHERE sc.is_complete = 0
QueryLnc(d) ==
    LET Test(j) == /\ j[1].student_id = j[2].student_id
                   /\ j[2].course_code = j[3].course_code
                   /\ j[2].is_complete = 0
        m == SelectSeq(Join3(d.Student, d.StudentCourse, d.Course), Test)
    IN [k \in 1..Len(m) |-> StudentCourseRow(m[k])]

\* ... WHERE sc.is_complete = 1 AND sc.mark <= 30  (a NULL mark compares as unknown)
QueryLf(d) ==
    LET Test(j) == /\ j[1].student_id = j[2].student_id
                   /\ j[2].course_code = j[3].course_code
                   /\ j[2].is_complete = 1
                   /\ j[2].mark.t = "int"
                   /\ j[2].mark.i <= 30
        m == SelectSeq(Join3(d.Student, d.StudentCourse, d.Course), Test)
    IN [k \in 1..Len(m) |-> Append(StudentCourseRow(m[k]), m[k][2].mark)]

\* What execute_query returns: the fetched rows, or None after sqlite3.Error.
None == [isNone |-> TRUE, rows |-> <<>>]
Fetched(rows) == [isNone |-> FALSE, rows |-> rows]

execute_query(d, rows) == IF d.schema THEN Fetched(rows) ELSE None

\* Python truth value of a result: None and the empty list are false.
Truthy(result) == ~result.isNone /\ result.rows # <<>>

----------------------------------------------------------------------------
(* Export.                                                                 *)

Element(tag, text, children) == [tag |-> tag, text |-> text, children |-> children]

\* enumerate(row, 1) instead of enumerate(row).
FieldTagFromOne(i) == <<"f","i","e","l","d","_">> \o IntStr(i + 1)

\* f"field_{i}"
FieldTag(i) == <<"f","i","e","l","d","_">> \o IntStr(i)

\* The element tree store_data_as_xml builds: enumerate(row) counts from 0.
XmlItem(row) ==
    Element(<<"i","t","e","m">>, <<>>,
            [i \in 1..Len(row) |-> Element(FieldTag(i - 1), PyStr(row[i]), <<>>)])

XmlTree(rows) ==
    Element(<<"r","e","s","u","l","t","s">>, <<>>, [k \in 1..Len(rows) |-> XmlItem(rows[k])])

\* The value json.dump serialises: a list of lists of strings, numbers and nulls.
JsonOf(v) == IF v.t = "text" THEN [j |-> "string", s |-> v.s]
             ELSE IF v.t = "int" THEN [j |-> "number", n |-> v.i]
             ELSE [j |-> "null"]

JsonDoc(rows) == [k \in 1..Len(rows) |-> [i \in 1..Len(rows[k]) |-> JsonOf(rows[k][i])]]

ExtXml == <<"x","m","l">>
ExtJson == <<"j","s","o","n">>

\* A chain that saves everything it does not recognise as JSON.
ExportFormatJsonByDefault(ext) == IF ext = ExtXml THEN "xml" ELSE "json"

\* if ext == 'xml' ... elif ext == 'json' ... else: invalid file extension
ExportFormat(ext) == IF ext = ExtXml THEN "xml"
                     ELSE IF ext = ExtJson THEN "json"
                     ELSE "invalid"

----------------------------------------------------------------------------
(* Console input.                                                          *)

ArgTokens == { <<"a","b">>, <<"X","1">> }

ArgLists == UNION { [1..n -> ArgTokens] : n \in 0..MaxArgs }

CommandTexts == { <<"d">>, <<"v","s">>, <<"l","a">>, <<"l","r">>, <<"l","c">>,
                  <<"l","n","c">>, <<"l","f">>, <<"e">>, <<" ","E">>, <<"V","s">>,
                  <<"z","z">>, <<>> }

\* A typed line: the command text and the arguments, one space before each argument.
RECURSIVE Render(_, _)
Render(text, args) ==
    IF args = <<>> THEN text ELSE Render(text \o <<" ">> \o Head(args), Tail(args))

Lines == { Render(c, a) : c \in CommandTexts, a \in ArgLists }

Choices == { <<"y">>, <<" ","Y">>, <<"n">>, <<"N"," ">>, <<>>, <<"n","o">> }

Filenames == { <<>>, <<"x","m","l">>, <<"j","s","o","n">>, <<"a",".","x","m","l">>,
               <<"a",".","j","s","o","n">>, <<"a",".","t","x","t">>,
               <<"a",".","X","M","L">>, <<"a",".","x","m","l",".","b">> }

valid_commands == { <<"d">>, <<"v","s">>, <<"l","a">>, <<"l","r">>, <<"l","c">>,
                    <<"l","n","c">>, <<"l","f">>, <<"e">> }

\* user_input after strip().lower(), and after split().
\* (Both are tabulated once for the lines that can be typed.)
FoldedLines == [line \in Lines |-> Lower(Strip(line))]
SplitLines == [line \in Lines |-> Split(FoldedLines[line])]

Folded(line) == FoldedLines[line]
UserInput(line) == SplitLines[line]
Command(line) == UserInput(line)[1]
Args(line) == Tail(UserInput(line))

\* The exit test applied to the command token instead of the whole line.
IsExitByToken(folded) == Split(folded) # <<>> /\ Head(Split(folded)) = <<"e">>

\* if user_input == 'e', before the line is split
IsExit(folded) == folded = <<"e">>

\* The name check with `and` for `or`.
NamesRejectedIfBoth(firstname, lastname) == ~IsAlpha(firstname) /\ ~IsAlpha(lastname)

\* if not firstname.isalpha() or not lastname.isalpha()
NamesRejected(firstname, lastname) == ~IsAlpha(firstname) \/ ~IsAlpha(lastname)

\* The prompt read as Y/[N]: every answer but y declines.
ChoiceIsNoByDefault(choice) == choice # <<"y">>

\* elif choice == 'n': break
ChoiceIsNo(choice) == choice = <<"n">>

usage_is_incorrect(input_list, num_args) == Len(input_list) # num_args + 1

UsageMessage(input_list, num_args) ==
    [msg |-> "requires arguments", command |-> input_list[1], num_args |-> num_args]

StorePrompt == [msg |-> "Would you like to store this result?"]

RowLines(label, rows) == [k \in 1..Len(rows) |-> [msg |-> label, row |-> rows[k]]]

Query(name, params, result) ==
    [query |-> name, params |-> params, error |-> result.isNone, rows |-> Len(result.rows)]

----------------------------------------------------------------------------
(* The program.                                                            *)

Init ==
    /\ pc = "main"
    /\ dbfile \in DOMAIN Databases
    /\ data = None
    /\ input = [at |-> "start", text |-> <<>>]
    /\ out = << [msg |-> "Welcome to the data querying app!"] >>
    /\ executed = <<>>
    /\ written = <<>>
    /\ connOpen = TRUE

\* A line was read at the main prompt and is not the exit command.
Reads(line) ==
    /\ pc = "main"
    /\ ~IsExit(Folded(line))
    /\ input' = [at |-> "main", text |-> line]

\* The iteration ends at `continue` or at the end of the loop body without
\* having run a query.
Continue(messages) ==
    /\ out' = messages
    /\ pc' = "main"
    /\ executed' = <<>>
    /\ UNCHANGED <<dbfile, data, written, connOpen>>

\* data = execute_query(...); if data: print rows, offer_to_store(data);
\* else: print the command's no-result message.
RunQuery(name, params, rows, heading, label, nothing) ==
    LET result == execute_query(db, rows)
    IN /\ executed' = << Query(name, params, result) >>
       /\ data' = result
       /\ IF Truthy(result)
          THEN /\ out' = heading \o RowLines(label, result.rows) \o << StorePrompt >>
               /\ pc' = "store"
          ELSE /\ out' = (IF result.isNone THEN << [msg |-> "There has been a database error"] >>
                          ELSE <<>>) \o << [msg |-> nothing] >>
               /\ pc' = "main"
       /\ UNCHANGED <<dbfile, written, connOpen>>

Exit(line) ==
    /\ pc = "main"
    /\ IsExit(Folded(line))
    /\ input' = [at |-> "main", text |-> line]
    /\ out' = << [msg |-> "Program exited successfully!"] >>
    /\ pc' = "done"
    /\ connOpen' = FALSE
    /\ executed' = <<>>
    /\ UNCHANGED <<dbfile, data, written>>

NoCommand(line) ==
    /\ Reads(line)
    /\ UserInput(line) = <<>>
    /\ Continue(<< [msg |-> "Error: No command entered. Please try again."] >>)

InvalidCommand(line) ==
    /\ Reads(line)
    /\ UserInput(line) # <<>>
    /\ Command(line) \notin valid_commands
    /\ Continue(<< [msg |-> "is not a valid command", command |-> Command(line)] >>)

\* The demo calls cur.execute directly: sqlite3.Error is not caught, the
\* arguments are not counted and the result is not offered for storing.
CommandD(line) ==
    /\ Reads(line)
    /\ UserInput(line) # <<>>
    /\ Command(line) = <<"d">>
    /\ IF db.schema
       THEN /\ executed' = << Query("d", <<>>, Fetched(QueryD(db))) >>
            /\ data' = Fetched(QueryD(db))
            /\ out' = [k \in 1..Len(QueryD(db)) |->
                         [msg |-> "name", firstname |-> QueryD(db)[k][2], surname |-> QueryD(db)[k][3]]]
            /\ pc' = "main"
       ELSE /\ executed' = << Query("d", <<>>, None) >>
            /\ data' = data
            /\ out' = << [msg |-> "Traceback: sqlite3.OperationalError"] >>
            /\ pc' = "crashed"
    /\ UNCHANGED <<dbfile, written, connOpen>>

CommandVs(line) ==
    /\ Reads(line)
    /\ UserInput(line) # <<>>
    /\ Command(line) = <<"v","s">>
    /\ IF usage_is_incorrect(UserInput(line), 1)
       THEN Continue(<< UsageMessage(UserInput(line), 1) >>)
       ELSE RunQuery("vs", Args(line), QueryVs(db, Args(line)[1]), <<>>, "Subject",
                     "No subjects were found for this student ID.")

CommandLa(line) ==
    /\ Reads(line)
    /\ UserInput(line) # <<>>
    /\ Command(line) = <<"l","a">>
    /\ IF usage_is_incorrect(UserInput(line), 2)
       THEN Continue(<< UsageMessage(UserInput(line), 2) >>)
       ELSE LET firstname == Capitalize(Strip(Args(line)[1]))
                lastname == Capitalize(Strip(Args(line)[2]))
            IN IF NamesRejected(firstname, lastname)
               THEN Continue(<< [msg |-> "Error: First name and surname should only contain alphabetic characters."] >>)
               ELSE RunQuery("la", <<firstname, lastname>>, QueryLa(db, firstname, lastname),
                             <<>>, "Address", "No address found for this name.")

CommandLr(line) ==
    /\ Reads(line)
    /\ UserInput(line) # <<>>
    /\ Command(line) = <<"l","r">>
    /\ IF usage_is_incorrect(UserInput(line), 1)
       THEN Continue(<< UsageMessage(UserInput(line), 1) >>)
       ELSE RunQuery("lr", Args(line), QueryLr(db, Args(line)[1]), <<>>, "Review",
                     "No reviews were found for this student ID.")

CommandLc(line) ==
    /\ Reads(line)
    /\ UserInput(line) # <<>>
    /\ Command(line) = <<"l","c">>
    /\ IF usage_is_incorrect(UserInput(line), 1)
       THEN Continue(<< UsageMessage(UserInput(line), 1) >>)
       ELSE RunQuery("lc", Args(line), QueryLc(db, Args(line)[1]),
                     << [msg |-> "Courses taught by teacher ID", teacher_id |-> Args(line)[1]] >>,
                     "Course", "No courses found for teacher ID")

CommandLnc(line) ==
    /\ Reads(line)
    /\ UserInput(line) # <<>>
    /\ Command(line) = <<"l","n","c">>
    /\ RunQuery("lnc", <<>>, QueryLnc(db), <<>>, "Student",
                "No students with incomplete courses were found.")

CommandLf(line) ==
    /\ Reads(line)
    /\ UserInput(line) # <<>>
    /\ Command(line) = <<"l","f">>
    /\ RunQuery("lf", <<>>, QueryLf(db), <<>>, "Student",
                "No students with completed courses and low scores found.")

\* The final else of the dispatch: only e followed by arguments gets here.
IncorrectCommand(line) ==
    /\ Reads(line)
    /\ UserInput(line) # <<>>
    /\ Command(line) = <<"e">>
    /\ Continue(<< [msg |-> "Incorrect command", command |-> Command(line)] >>)

\* offer_to_store: the answer to "Y/[N]? : ".
StoreChoice(text) ==
    /\ pc = "store"
    /\ input' = [at |-> "store", text |-> text]
    /\ LET choice == Lower(Strip(text))
       IN IF choice = <<"y">>
          THEN /\ pc' = "filename"
               /\ out' = <<>>
          ELSE IF ChoiceIsNo(choice)
          THEN /\ pc' = "main"
               /\ out' = <<>>
          ELSE /\ pc' = "store"
               /\ out' = << [msg |-> "Invalid choice"], StorePrompt >>
    /\ executed' = <<>>
    /\ written' = <<>>
    /\ UNCHANGED <<dbfile, data, connOpen>>

\* offer_to_store: the answer to "Specify filename", the save, and the next
\* turn of the while loop up to its prompt.  ok is whether the file could be
\* opened and written (IOError otherwise).
EnterFilename(filename, ok) ==
    /\ pc = "filename"
    /\ input' = [at |-> "filename", text |-> filename]
    /\ LET format == ExportFormat(LastDotPart(filename))
       IN IF format = "xml"
          THEN IF ok
               THEN /\ written' = << [filename |-> filename, format |-> "xml", doc |-> XmlTree(data.rows)] >>
                    /\ out' = << [msg |-> "The results have been saved to", filename |-> filename], StorePrompt >>
               ELSE /\ written' = <<>>
                    /\ out' = << [msg |-> "Error saving the XML file"], StorePrompt >>
          ELSE IF format = "json"
          THEN IF ok
               THEN /\ written' = << [filename |-> filename, format |-> "json", doc |-> JsonDoc(data.rows)] >>
                    /\ out' = << [msg |-> "The results have been saved to", filename |-> filename], StorePrompt >>
               ELSE /\ written' = <<>>
                    /\ out' = << [msg |-> "Error saving JSON to file"], StorePrompt >>
          ELSE /\ written' = <<>>
               /\ out' = << [msg |-> "Invalid file extension. Please use .xml or .json"], StorePrompt >>
    /\ pc' = "store"
    /\ executed' = <<>>
    /\ UNCHANGED <<dbfile, data, connOpen>>

\* The typed lines by command token.  Every action below states its own
\* guard; it is only tried on the lines whose command token can satisfy it.
LinesFor == [c \in valid_commands |->
               {line \in Lines : UserInput(line) # <<>> /\ Command(line) = c}]

OtherLines == {line \in Lines : UserInput(line) = <<>> \/ Command(line) \notin valid_commands}

Next ==
    \/ \E line \in LinesFor[<<"e">>] : Exit(line)
    \/ \E line \in OtherLines : NoCommand(line)
    \/ \E line \in OtherLines : InvalidCommand(line)
    \/ \E line \in LinesFor[<<"d">>] : CommandD(line)
    \/ \E line \in LinesFor[<<"v","s">>] : CommandVs(line)
    \/ \E line \in LinesFor[<<"l","a">>] : CommandLa(line)
    \/ \E line \in LinesFor[<<"l","r">>] : CommandLr(line)
    \/ \E line \in LinesFor[<<"l","c">>] : CommandLc(line)
    \/ \E line \in LinesFor[<<"l","n","c">>] : CommandLnc(line)
    \/ \E line \in LinesFor[<<"l","f">>] : CommandLf(line)
    \/ \E line \in LinesFor[<<"e">>] : IncorrectCommand(line)
    \/ \E text \in Choices : StoreChoice(text)
    \/ \E filename \in Filenames, ok \in BOOLEAN : EnterFilename(filename, ok)

Spec == Init /\ [][Next]_vars

----------------------------------------------------------------------------
(* Vocabulary of the properties.  A state is looked at right after a step: *)
(* input is what the step read, out, executed and written are what it did, *)
(* and pc is the prompt the program now waits at.                          *)

\* The tokens of the command line the last step read (none if it read something else).
TypedTokens == IF input.at = "main" THEN Split(Lower(Strip(input.text))) ELSE <<>>

\* The seven query commands and the number of arguments each requires.
RequiredArgs == [c \in valid_commands \ {<<"e">>} |->
                   IF c \in {<<"v","s">>, <<"l","r">>, <<"l","c">>} THEN 1
                   ELSE IF c = <<"l","a">> THEN 2 ELSE 0]

TypedQueryCommand == TypedTokens # <<>> /\ Head(TypedTokens) \in DOMAIN RequiredArgs

Printed(message) == \E i \in 1..Len(out) : out[i] = message

PrintedKind(kind) == \E i \in 1..Len(out) : out[i].msg = kind

HasSuffix(s, suffix) ==
    /\ Len(s) >= Len(suffix)
    /\ SubSeq(s, Len(s) - Len(suffix) + 1, Len(s)) = suffix

EndsInJsonOrXml(s) == HasSuffix(s, <<".">> \o ExtJson) \/ HasSuffix(s, <<".">> \o ExtXml)

HasNonAlpha(s) == \E i \in 1..Len(s) : s[i] \notin Letters

HasLowerCase(s) == \E i \in 1..Len(s) : s[i] \in Range(LowerChars)

\* C1: a query command typed with the wrong number of arguments executes no
\* query and prints the message naming the command and its required count.
C1_ArgCountMismatchRejected ==
    (TypedQueryCommand /\ Len(TypedTokens) - 1 # RequiredArgs[Head(TypedTokens)])
        => /\ executed = <<>>
           /\ Printed([msg |-> "requires arguments", command |-> Head(TypedTokens),
                       num_args |-> RequiredArgs[Head(TypedTokens)]])

\* C2: when the database raises an error while a command's query runs, the
\* error is reported, the result counts as empty and the main loop reads the
\* next line.
C2_DatabaseErrorCaught ==
    (executed # <<>> /\ executed[1].error)
        => /\ pc = "main"
           /\ PrintedKind("There has been a database error")
           /\ ~Truthy(data)

\* C3: a query command whose query succeeds with at least one row issues the
\* store prompt before the next command line is read.
C3_RowsOfferedForStoring ==
    (TypedQueryCommand /\ executed # <<>> /\ ~executed[1].error /\ executed[1].rows >= 1)
        => /\ pc = "store"
           /\ Printed(StorePrompt)

\* C4 as claimed: after a filename without a .json or .xml suffix the export
\* flow ends and the next input is a command line.
C4_BadExtensionEndsExport ==
    (input.at = "filename" /\ ~EndsInJsonOrXml(input.text)) => pc = "main"

\* C4 as amended: after a filename without a .json or .xml suffix the store
\* prompt is issued again (the next input is its answer, not a filename and not
\* a command line); unless the name is exactly xml or json, the
\* invalid-extension error is reported and nothing is written.
C4_BadExtensionAsksAgain ==
    (input.at = "filename" /\ ~EndsInJsonOrXml(input.text))
        => /\ pc = "store"
           /\ out[Len(out)] = StorePrompt
           /\ input.text \notin {ExtXml, ExtJson}
                => /\ PrintedKind("Invalid file extension. Please use .xml or .json")
                   /\ written = <<>>

C4_Witness ==
    /\ input = [at |-> "filename", text |-> <<"a",".","t","x","t">>]
    /\ pc = "store"
    /\ PrintedKind("Invalid file extension. Please use .xml or .json")

\* C5: a file is written only for a filename ending in .json or .xml; for every
\* other filename nothing is written and the invalid-extension error is reported.
C5_WrittenOnlyWithSuffix ==
    (input.at = "filename" /\ ~EndsInJsonOrXml(input.text))
        => /\ written = <<>>
           /\ PrintedKind("Invalid file extension. Please use .xml or .json")

\* C6 as claimed: a line whose command token is e terminates the loop, with no
\* query executed, and the connection is closed.
C6_ExitTokenTerminates ==
    (TypedTokens # <<>> /\ Head(TypedTokens) = <<"e">>)
        => /\ pc = "done"
           /\ executed = <<>>
           /\ ~connOpen

\* C6 as amended: a line that is exactly e after trimming and case-folding
\* terminates the loop, with no query executed, no further input read and the
\* connection closed; a line whose command token is e followed by arguments is
\* reported as an incorrect command and the loop goes on, with no query executed.
C6_ExitLineTerminates ==
    /\ (input.at = "main" /\ Lower(Strip(input.text)) = <<"e">>)
         => /\ pc = "done"
            /\ executed = <<>>
            /\ ~connOpen
            /\ ~ENABLED Next
    /\ (TypedTokens # <<>> /\ Head(TypedTokens) = <<"e">> /\ Len(TypedTokens) > 1)
         => /\ pc = "main"
            /\ executed = <<>>
            /\ connOpen
            /\ PrintedKind("Incorrect command")

C6_Witness ==
    /\ input = [at |-> "main", text |-> <<" ","E">>]
    /\ pc = "done"
    /\ ~connOpen

\* C7: la with two arguments of which one has a non-alphabetic character
\* reports the error, executes no query, issues no store prompt and goes on
\* to the next line.
C7_NonAlphabeticNameRejected ==
    (/\ Len(TypedTokens) = 3
     /\ Head(TypedTokens) = <<"l","a">>
     /\ HasNonAlpha(TypedTokens[2]) \/ HasNonAlpha(TypedTokens[3]))
        => /\ executed = <<>>
           /\ PrintedKind("Error: First name and surname should only contain alphabetic characters.")
           /\ ~Printed(StorePrompt)
           /\ pc = "main"

C7_Witness ==
    /\ input = [at |-> "main", text |-> <<"l","a"," ","a","b"," ","X","1">>]
    /\ pc = "main"
    /\ executed = <<>>

\* The course names of the enrollments of the students a typed id selects,
\* given which stored ids the typed id matches.
CoursesOf(Matches(_)) ==
    { db.Course[c].course_name :
        c \in { c \in DOMAIN db.Course :
                  \E s \in DOMAIN db.Student, e \in DOMAIN db.StudentCourse :
                     /\ Matches(db.Student[s].student_id)
                     /\ db.StudentCourse[e].student_id = db.Student[s].student_id
                     /\ db.StudentCourse[e].course_code = db.Course[c].course_code } }

VsAnswered == /\ Len(TypedTokens) = 2
              /\ Head(TypedTokens) = <<"v","s">>
              /\ executed # <<>>
              /\ ~executed[1].error

VsReturned == { data.rows[k][1].s : k \in 1..Len(data.rows) }

\* C8 as claimed: vs returns exactly the distinct course names of the student
\* whose stored id equals the typed id when case is ignored on both sides.
C8_VsIgnoresCaseOnBothSides ==
    VsAnswered =>
        LET Matches(stored) == Lower(stored) = Lower(TypedTokens[2])
        IN VsReturned = CoursesOf(Matches)

\* C8 as amended: vs returns exactly the distinct course names, each once, of
\* the student whose stored id is the typed id in upper case: case is ignored
\* in the typed id only, and a stored id with a lower-case letter never matches.
C8_VsUpperCasesTypedId ==
    VsAnswered =>
        LET Matches(stored) == /\ Lower(stored) = Lower(TypedTokens[2])
                               /\ ~HasLowerCase(stored)
        IN /\ VsReturned = CoursesOf(Matches)
           /\ Cardinality(VsReturned) = Len(data.rows)
           /\ \A k \in 1..Len(data.rows) : Len(data.rows[k]) = 1

C8_Witness ==
    /\ VsAnswered
    /\ db = Populated(IdX1)
    /\ input.text = <<"V","s"," ","X","1">>
    /\ VsReturned = {CoursePy, CourseSq}
    /\ Len(data.rows) = 2

\* The number a string of decimal digits denotes.
RECURSIVE DigitsValue(_)
DigitsValue(s) ==
    IF s = <<>> THEN 0
    ELSE 10 * DigitsValue(SubSeq(s, 1, Len(s) - 1)) + (IndexIn(s[Len(s)], DigitChars) - 1)

\* s is the decimal numeral of the natural number n.
IsNumeral(s, n) ==
    /\ Len(s) > 0
    /\ \A i \in 1..Len(s) : s[i] \in Range(DigitChars)
    /\ Len(s) > 1 => s[1] # "0"
    /\ DigitsValue(s) = n

\* s is str(v) for a value v read from the database.
IsStringOf(s, v) ==
    IF v.t = "text" THEN s = v.s
    ELSE IF v.t = "int" THEN (IF v.i < 0 THEN Len(s) > 1 /\ s[1] = "-" /\ IsNumeral(Tail(s), 0 - v.i)
                              ELSE IsNumeral(s, v.i))
    ELSE s = <<"N","o","n","e">>

IsField(e, i, v) ==
    /\ Len(e.tag) > 6
    /\ SubSeq(e.tag, 1, 6) = <<"f","i","e","l","d","_">>
    /\ IsNumeral(SubSeq(e.tag, 7, Len(e.tag)), i)
    /\ IsStringOf(e.text, v)
    /\ e.children = <<>>

IsItem(e, row) ==
    /\ e.tag = <<"i","t","e","m">>
    /\ Len(e.children) = Len(row)
    /\ \A i \in 1..Len(row) : IsField(e.children[i], i - 1, row[i])

IsResults(e, rows) ==
    /\ e.tag = <<"r","e","s","u","l","t","s">>
    /\ Len(e.children) = Len(rows)
    /\ \A k \in 1..Len(rows) : IsItem(e.children[k], rows[k])

\* C9: the document an XML export writes is one results element with one item
\* per row in row order, the item of a row with n values having exactly the
\* children field_0 .. field_(n-1) in order, the i-th holding str of the i-th value.
C9_XmlMirrorsRows ==
    \A w \in 1..Len(written) :
        written[w].format = "xml" => IsResults(written[w].doc, data.rows)

\* Two review rows (five columns: four integers and a text that is NULL in the
\* second row) were exported.
C9_Witness ==
    /\ Len(written) = 1
    /\ written[1].format = "xml"
    /\ Len(written[1].doc.children) = 2
    /\ Len(written[1].doc.children[2].children) = 5
    /\ written[1].doc.children[2].children[5].tag = <<"f","i","e","l","d","_","4">>
    /\ written[1].doc.children[1].children[1].text = <<"4">>
    /\ written[1].doc.children[2].children[1].text = <<"1","0">>
    /\ written[1].doc.children[2].children[5].text = <<"N","o","n","e">>

====
